---- MODULE Spec2Model ----
(***************************************************************************)
(* Model of the documentation extractor of tooling/doc_generator:          *)
(* Output::to_output (output.rs) and the scanners it calls (getters.rs).   *)
(*                                                                         *)
(* Indices are 0-based as in the Rust code; At(tokens, i) is tokens[i].    *)
(* A read of tokens[i] with i >= tokens.len() panics; every scanner        *)
(* returns a record whose field ok is FALSE when it panicked.              *)
(*                                                                         *)
(* Strings built from token texts (signatures, docs) are modelled as       *)
(* sequences of pieces: a piece is a literal text or the position of the   *)
(* token whose text was pushed, so that the origin of every part of a      *)
(* string can be stated.                                                   *)
(*                                                                         *)
(* Spec runs to_output with each loop iteration as one step, the calls of  *)
(* an iteration included. CallSpec runs it with the recursive call of      *)
(* to_output on a module's content as a step of its own: stack holds the   *)
(* suspended callers (it stays empty under Spec).                          *)
(***************************************************************************)
EXTENDS Integers, Sequences, FiniteSets, TLC

VARIABLES tokens, i, skip_count, is_first, res, status, dispatched, stack

vars == <<tokens, i, skip_count, is_first, res, status, dispatched, stack>>

-----------------------------------------------------------------------------
(* Tokens (noirc_frontend::token::Token, as matched in getters.rs/output.rs) *)

Tok(k) == [k |-> k, style |-> "na", text |-> <<>>]
Ident(n) == [k |-> "ident", style |-> "na", text |-> n]
LineComment(t, s) == [k |-> "line", style |-> s, text |-> t]
BlockComment(t, s) == [k |-> "block", style |-> s, text |-> t]

KwFn == Tok("fn")
KwStruct == Tok("struct")
KwTrait == Tok("trait")
KwMod == Tok("mod")
KwImpl == Tok("impl")
KwPub == Tok("pub")
LeftBrace == Tok("lbrace")
RightBrace == Tok("rbrace")
Semicolon == Tok("semi")
Comma == Tok("comma")
Colon == Tok("colon")

InRange(toks, n) == n >= 0 /\ n < Len(toks)
At(toks, n) == toks[n + 1]

IsComment(t) == t.k \in {"line", "block"}
IsInnerComment(t) == IsComment(t) /\ t.style = "inner"
IsOuterComment(t) == IsComment(t) /\ t.style = "outer"
IsPlainComment(t) == IsComment(t) /\ t.style = "none"
IsDeclKeyword(t) == t.k \in {"fn", "mod", "struct", "trait", "impl"}

(* pieces of a String *)
Lit(s) == [lit |-> s, pos |-> -1]
TokText(p) == [lit |-> "", pos |-> p]

-----------------------------------------------------------------------------
(* getters.rs: doc *)

RECURSIVE doc_run(_, _, _, _)
doc_run(toks, index, iter, acc) ==
    IF index - iter >= 0 /\ IsPlainComment(At(toks, index - iter))
    THEN doc_run(toks, index, iter + 1, <<index - iter>> \o acc)
    ELSE acc

RECURSIVE doc_find(_, _, _, _)
doc_find(toks, index, iter, acc) ==
    IF index - iter < 0 THEN acc
    ELSE LET t == At(toks, index - iter) IN
         IF IsOuterComment(t)
         THEN doc_find(toks, index, iter + 1, <<index - iter>> \o acc)
         ELSE IF IsDeclKeyword(t) THEN acc
         ELSE doc_find(toks, index, iter + 1, acc)

\* The positions of the comment tokens whose texts make up the result, in
\* the order of the text.
doc(toks, index) ==
    IF index = 0 THEN <<>>
    ELSE IF IsComment(At(toks, index - 1))
         THEN doc_run(toks, index, 2, <<index - 1>>)
         ELSE doc_find(toks, index, 2, <<>>)

(* getters.rs: additional_doc *)

RECURSIVE additional_doc_run(_, _, _, _)
additional_doc_run(toks, index, iter, acc) ==
    IF index - iter >= 0 /\ IsInnerComment(At(toks, index - iter))
    THEN additional_doc_run(toks, index, iter + 1, <<index - iter>> \o acc)
    ELSE acc

RECURSIVE additional_doc_find(_, _, _, _)
additional_doc_find(toks, index, iter, acc) ==
    IF index - iter < 0 THEN acc
    ELSE LET t == At(toks, index - iter) IN
         IF t.k = "line" /\ t.style = "inner"
         THEN additional_doc_find(toks, index, iter + 1, <<index - iter>> \o acc)
         ELSE IF IsDeclKeyword(t) THEN acc
         ELSE additional_doc_find(toks, index, iter + 1, acc)

additional_doc(toks, index) ==
    IF index = 0 THEN <<>>
    ELSE IF IsInnerComment(At(toks, index - 1))
         THEN additional_doc_run(toks, index, 2, <<index - 1>>)
         ELSE additional_doc_find(toks, index, 2, <<>>)

\* The text of a doc: the texts of the comments at the given positions,
\* concatenated.
RECURSIVE CommentTexts(_, _)
CommentTexts(toks, ps) ==
    IF ps = <<>> THEN <<>>
    ELSE At(toks, Head(ps)).text \o CommentTexts(toks, Tail(ps))

-----------------------------------------------------------------------------
(* getters.rs: skip_impl_block *)

RECURSIVE skip_impl_find(_, _)
skip_impl_find(toks, n) ==
    IF ~InRange(toks, n) THEN -1
    ELSE IF At(toks, n) = LeftBrace THEN n + 1
    ELSE skip_impl_find(toks, n + 1)

RECURSIVE skip_impl_close(_, _, _)
skip_impl_close(toks, n, brace_counter) ==
    IF brace_counter = 0 THEN n
    ELSE IF ~InRange(toks, n) THEN -1
    ELSE IF At(toks, n) = LeftBrace THEN skip_impl_close(toks, n + 1, brace_counter + 1)
    ELSE IF At(toks, n) = RightBrace THEN skip_impl_close(toks, n + 1, brace_counter - 1)
    ELSE skip_impl_close(toks, n + 1, brace_counter)

\* skip_impl_block returning the count of the tokens from index on
skip_impl_block_off_by_one(toks, index) ==
    LET a == skip_impl_find(toks, index)
        b == IF a = -1 THEN -1 ELSE skip_impl_close(toks, a, 1)
    IN  IF b = -1 THEN [ok |-> FALSE, n |-> 0]
        ELSE [ok |-> TRUE, n |-> b - index]

skip_impl_block(toks, index) ==
    LET a == skip_impl_find(toks, index)
        b == IF a = -1 THEN -1 ELSE skip_impl_close(toks, a, 1)
    IN  IF b = -1 THEN [ok |-> FALSE, n |-> 0]
        ELSE [ok |-> TRUE, n |-> b - index - 1]

(* getters.rs: fn_signature *)

RECURSIVE fn_signature_loop(_, _, _)
fn_signature_loop(toks, n, acc) ==
    IF ~InRange(toks, n) THEN [ok |-> FALSE, sig |-> acc]
    ELSE IF At(toks, n) \in {LeftBrace, Semicolon} THEN [ok |-> TRUE, sig |-> acc]
    ELSE fn_signature_loop(toks, n + 1, acc \o <<TokText(n), Lit(" ")>>)

fn_signature(toks, index) == fn_signature_loop(toks, index, <<>>)

-----------------------------------------------------------------------------
(* getters.rs: struct_signature *)

\* struct_close without the check of is_private
struct_close_always_placeholder(is_private, acc) ==
    acc \o <<Lit("/* private fields */"), Lit("\n"), Lit("}")>>

\* lines 151-158: the scope-close of the body
struct_close(is_private, acc) ==
    acc \o (IF is_private THEN <<Lit("/* private fields */")>> ELSE <<>>)
        \o <<Lit("\n"), Lit("}")>>

\* struct_comma without the look at the next token
struct_comma_no_lookahead(toks, n, acc) == acc \o <<Lit(",")>>

\* lines 163-171: the separator that ends a public field
struct_comma(toks, n, acc) ==
    acc \o <<Lit(IF At(toks, n + 1) = RightBrace THEN "," ELSE ",\n")>>

\* lines 175-179: a token of a public field
struct_field_token(n, acc) == acc \o <<TokText(n), Lit(" ")>>

RECURSIVE struct_body(_, _, _, _)
RECURSIVE struct_field(_, _, _)

\* lines 161-181: the tokens of a public field, from the pub keyword on
struct_field(toks, n, acc) ==
    IF ~InRange(toks, n) THEN [ok |-> FALSE, sig |-> acc]
    ELSE IF At(toks, n) = Comma
         THEN IF ~InRange(toks, n + 1) THEN [ok |-> FALSE, sig |-> acc]
              ELSE struct_body(toks, n + 1, FALSE, struct_comma(toks, n, acc))
    ELSE IF At(toks, n) = RightBrace THEN struct_body(toks, n, FALSE, acc)
    ELSE struct_field(toks, n + 1, struct_field_token(n, acc))

\* lines 149-187: the body, from the scope-open on
struct_body(toks, n, is_private, acc) ==
    IF ~InRange(toks, n) THEN [ok |-> FALSE, sig |-> acc]
    ELSE IF At(toks, n) = RightBrace
         THEN [ok |-> TRUE, sig |-> struct_close(is_private, acc)]
    ELSE IF At(toks, n) = KwPub THEN struct_field(toks, n, acc)
    ELSE struct_body(toks, n + 1, is_private, acc)

\* lines 144-196: the header, up to the scope-open
RECURSIVE struct_header(_, _, _)
struct_header(toks, n, acc) ==
    IF ~InRange(toks, n) THEN [ok |-> FALSE, sig |-> acc]
    ELSE IF At(toks, n) = LeftBrace
         THEN struct_body(toks, n, TRUE, acc \o <<Lit("{"), Lit("\n")>>)
    ELSE struct_header(toks, n + 1, acc \o <<TokText(n), Lit(" ")>>)

struct_signature(toks, index) == struct_header(toks, index, <<>>)

-----------------------------------------------------------------------------
(* getters.rs: trait_info *)

\* crate::Function as built at lines 238-243 and 249-254; pos is the
\* position of the method's fn keyword.
Method(toks, p, sig) ==
    [name |-> At(toks, p + 1).text, doc |-> CommentTexts(toks, doc(toks, p)),
     docSrc |-> doc(toks, p), signature |-> sig, is_method |-> TRUE, pos |-> p]

\* trait_required pushing to the other list
trait_required_as_provided(info, f) ==
    [info EXCEPT !.provided_methods = Append(@, f),
                 !.sign = @ \o <<Lit(";"), Lit("\n")>>]

\* lines 237-247: the method ends at a statement terminator
trait_required(info, f) ==
    [info EXCEPT !.required_methods = Append(@, f),
                 !.sign = @ \o <<Lit(";"), Lit("\n")>>]

\* lines 248-257: the method ends at a scope-open
trait_provided(info, f) ==
    [info EXCEPT !.provided_methods = Append(@, f),
                 !.sign = @ \o <<Lit("{ ... }"), Lit("\n")>>]

\* trait_skip_body without the count of nested scope-opens
RECURSIVE trait_skip_body_flat(_, _, _)
trait_skip_body_flat(toks, n, brace_counter) ==
    IF brace_counter = 0 THEN n
    ELSE IF ~InRange(toks, n + 2) THEN -1
    ELSE trait_skip_body_flat(toks, n + 1,
            IF At(toks, n + 2) = RightBrace THEN brace_counter - 1
            ELSE brace_counter)

\* lines 258-269: the cursor after the body of a provided method is skipped
RECURSIVE trait_skip_body(_, _, _)
trait_skip_body(toks, n, brace_counter) ==
    IF brace_counter = 0 THEN n
    ELSE IF ~InRange(toks, n + 2) THEN -1
    ELSE LET t == At(toks, n + 2) IN
         trait_skip_body(toks, n + 1,
            IF t = LeftBrace THEN brace_counter + 1
            ELSE IF t = RightBrace THEN brace_counter - 1
            ELSE brace_counter)

RECURSIVE trait_body(_, _, _)
RECURSIVE trait_method(_, _, _, _)

\* lines 235-279: the tokens of one method, from its fn keyword on
trait_method(toks, n, f, info) ==
    IF ~InRange(toks, n + 1) THEN [info EXCEPT !.ok = FALSE]
    ELSE IF At(toks, n + 1) = Semicolon
         THEN trait_body(toks, n, trait_required(info, f))
    ELSE IF At(toks, n + 1) = LeftBrace
         THEN LET m == trait_skip_body(toks, n, 1) IN
              IF m = -1 THEN [trait_provided(info, f) EXCEPT !.ok = FALSE]
              ELSE trait_body(toks, m + 1, trait_provided(info, f))
    ELSE trait_method(toks, n + 1, f,
                      [info EXCEPT !.sign = @ \o <<TokText(n + 1), Lit(" ")>>])

\* lines 219-285: the body of the trait
trait_body(toks, n, info) ==
    IF ~InRange(toks, n + 1) THEN [info EXCEPT !.ok = FALSE]
    ELSE IF At(toks, n + 1) = RightBrace
         THEN [info EXCEPT !.sign = @ \o <<Lit("}")>>]
    ELSE IF At(toks, n + 1) = KwFn
         THEN IF ~InRange(toks, n + 2) THEN [info EXCEPT !.ok = FALSE]
              ELSE IF At(toks, n + 2).k # "ident" THEN info
              ELSE LET fn_sign == fn_signature(toks, n + 1) IN
                   IF ~fn_sign.ok THEN [info EXCEPT !.ok = FALSE]
                   ELSE trait_method(toks, n, Method(toks, n + 1, fn_sign.sig), info)
    ELSE trait_body(toks, n + 1, info)

\* lines 214-294: the header, up to the scope-open
RECURSIVE trait_header(_, _, _)
trait_header(toks, n, info) ==
    IF ~InRange(toks, n + 1) THEN [info EXCEPT !.ok = FALSE]
    ELSE IF At(toks, n + 1) = LeftBrace
         THEN trait_body(toks, n, [info EXCEPT !.sign = @ \o <<Lit("{"), Lit("\n")>>])
    ELSE trait_header(toks, n + 1,
                      [info EXCEPT !.sign = @ \o <<TokText(n + 1), Lit(" ")>>])

trait_info(toks, index) ==
    trait_header(toks, index,
        [ok |-> TRUE, sign |-> <<>>, required_methods |-> <<>>, provided_methods |-> <<>>])

-----------------------------------------------------------------------------
(* getters.rs: outer_doc *)

\* Token's Display for a comment: the comment marker, then the text.
Display(t) ==
    IF t.k = "line" THEN <<"/", "/">> \o t.text
    ELSE IF t.k = "block" THEN <<"/", "*">> \o t.text \o <<"*", "/">>
    ELSE IF t.k = "ident" THEN t.text
    ELSE <<t.k>>

\* lines 426-437
RECURSIVE outer_doc_loop(_, _, _)
outer_doc_loop(toks, n, acc) ==
    IF ~InRange(toks, n + 1) THEN [ok |-> FALSE, text |-> acc, last |-> n]
    ELSE IF IsInnerComment(At(toks, n + 1))
         THEN outer_doc_loop(toks, n + 1, acc \o At(toks, n + 1).text)
    ELSE [ok |-> TRUE, text |-> acc, last |-> n]

\* lines 439-443: the text after the first space, or nothing
SplitAfterSpace(s) ==
    IF \E k \in 1..Len(s) : s[k] = " "
    THEN LET pos == CHOOSE k \in 1..Len(s) :
                       s[k] = " " /\ \A j \in 1..(k - 1) : s[j] # " "
         IN  SubSeq(s, pos + 1, Len(s))
    ELSE <<>>

outer_doc(toks, index) ==
    LET r == outer_doc_loop(toks, index, Display(At(toks, index)))
    IN  [r EXCEPT !.text = SplitAfterSpace(@)]

-----------------------------------------------------------------------------
(* getters.rs: get_doc, and the files under input_files/ that it reads *)

NameG == <<"g">>
NameH == <<"h">>
NameM == <<"m">>
NameN == <<"n">>
NameQ == <<"q">>
NameR == <<"r">>
NameC == <<"c">>
TextA == <<" ", "A">>
TextB == <<" ", "B">>
TextC == <<"C">>
TextD == <<" ", "D">>

\* The files that exist and tokenize, by module name; no other file exists
\* (q is a module name without a file). The file of c declares module c.
InputFiles ==
    [x \in {NameM, NameN, NameR, NameC} |->
        IF x = NameM
        THEN <<LineComment(TextA, "outer"), KwFn, Ident(NameG), Semicolon>>
        ELSE IF x = NameN
        THEN <<KwMod, Ident(NameM), Semicolon, KwStruct, Ident(NameH),
               LeftBrace, RightBrace>>
        ELSE IF x = NameR
        THEN <<KwFn, Ident(NameG), Semicolon, KwMod, Ident(NameQ), Semicolon>>
        ELSE <<KwMod, Ident(NameC), Semicolon>>]

\* input_file is "input_files/<name>.nr"
get_doc(name) ==
    IF name \in DOMAIN InputFiles
    THEN [ok |-> TRUE, toks |-> InputFiles[name]]
    ELSE [ok |-> FALSE, toks |-> <<>>]

-----------------------------------------------------------------------------
(* lib.rs: Implementation::get_implementations *)

RECURSIVE impl_names(_, _, _)
impl_names(toks, n, name) ==
    IF ~InRange(toks, n) \/ At(toks, n) = LeftBrace THEN FALSE
    ELSE At(toks, n) = Ident(name) \/ impl_names(toks, n + 1, name)

\* One record per impl block whose header names the type or trait, in
\* source order.
RECURSIVE impl_scan(_, _, _)
impl_scan(toks, n, name) ==
    IF ~InRange(toks, n) THEN <<>>
    ELSE (IF At(toks, n) = KwImpl /\ impl_names(toks, n + 1, name)
          THEN <<[pos |-> n]>> ELSE <<>>) \o impl_scan(toks, n + 1, name)

get_implementations(toks, index, name) == impl_scan(toks, 0, name)

-----------------------------------------------------------------------------
(* getters.rs: get_module_content *)

RECURSIVE to_output(_)

\* lines 30-67: the first terminator or scope-open from index on
RECURSIVE module_scan(_, _)
module_scan(toks, n) ==
    IF ~InRange(toks, n) THEN [kind |-> "panic", at |-> n]
    ELSE IF At(toks, n) = Semicolon THEN [kind |-> "file", at |-> n]
    ELSE IF At(toks, n) = LeftBrace THEN [kind |-> "inline", at |-> n]
    ELSE module_scan(toks, n + 1)

\* lines 40-60: the tokens pushed to content while brace_counter != 0
RECURSIVE module_collect(_, _, _, _)
module_collect(toks, n, brace_counter, content) ==
    IF brace_counter = 0 THEN [ok |-> TRUE, content |-> content]
    ELSE IF ~InRange(toks, n) THEN [ok |-> FALSE, content |-> content]
    ELSE module_collect(toks, n + 1,
            IF At(toks, n) = LeftBrace THEN brace_counter + 1
            ELSE IF At(toks, n) = RightBrace THEN brace_counter - 1
            ELSE brace_counter,
            Append(content, At(toks, n)))

\* module_file reading one token too far back
module_file_off_by_one(toks, n) == At(toks, n - 2)

\* line 33: the token whose text names the file; n is the terminator
module_file(toks, n) == At(toks, n - 1)

\* lines 26-67: the tokens get_module_content gives to to_output at line 69
module_tokens(toks, index) ==
    LET s == module_scan(toks, index) IN
    IF s.kind = "panic" THEN [status |-> "panic", toks |-> <<>>]
    ELSE IF s.kind = "file"
         THEN LET f == get_doc(Display(module_file(toks, s.at))) IN
              IF ~f.ok THEN [status |-> "err", toks |-> <<>>]
              ELSE [status |-> "ok", toks |-> f.toks]
    ELSE LET c == module_collect(toks, s.at + 1, 1, <<>>) IN
         IF ~c.ok THEN [status |-> "panic", toks |-> <<>>]
         ELSE [status |-> "ok", toks |-> c.content]

get_module_content(toks, index) ==
    LET content == module_tokens(toks, index) IN
    IF content.status # "ok" THEN [status |-> content.status, nodes |-> <<>>]
    ELSE to_output(content.toks)

-----------------------------------------------------------------------------
(* output.rs: Output::to_output *)

\* Output, with Info flattened into it; pos is the position of the token
\* the node was built at, docSrc the positions of the comments in doc.
Blank ==
    [type |-> "", name |-> <<>>, doc |-> <<>>, docSrc |-> <<>>, pos |-> -1,
     signature |-> <<>>, additional_doc |-> <<>>, required_methods |-> <<>>,
     provided_methods |-> <<>>, implementations |-> <<>>, content |-> <<>>]

\* lines 131-134: the locals of to_output; dispatched lists the positions
\* at which the match of line 141 ran.
Fresh ==
    [i |-> 0, skip_count |-> 0, is_first |-> TRUE, res |-> <<>>,
     status |-> "run", dispatched |-> <<>>]

Continue(st) == [st EXCEPT !.i = @ + 1]
Panic(st) == [st EXCEPT !.status = "panic"]
\* Push putting the node at the front of the list
Push_front(st, node) == [st EXCEPT !.res = <<node>> \o @, !.i = @ + 1]
Push(st, node) == [st EXCEPT !.res = Append(@, node), !.i = @ + 1]
Mark(st) == [st EXCEPT !.dispatched = Append(@, st.i)]

Declared(toks, st, type) ==
    [Blank EXCEPT !.type = type, !.name = At(toks, st.i + 1).text,
                  !.doc = CommentTexts(toks, doc(toks, st.i)),
                  !.docSrc = doc(toks, st.i), !.pos = st.i]

\* lines 142-154
fn_arm(toks, st) ==
    IF ~InRange(toks, st.i + 1) THEN Panic(st)
    ELSE IF At(toks, st.i + 1).k # "ident" THEN Continue(st)
    ELSE LET sign == fn_signature(toks, st.i) IN
         IF ~sign.ok THEN Panic(st)
         ELSE Push(st, [Declared(toks, st, "Function") EXCEPT !.signature = sign.sig])

\* lines 155-177
struct_arm(toks, st) ==
    IF ~InRange(toks, st.i + 1) THEN Panic(st)
    ELSE IF At(toks, st.i + 1).k # "ident" THEN Continue(st)
    ELSE LET sign == struct_signature(toks, st.i) IN
         IF ~sign.ok THEN Panic(st)
         ELSE Push(st, [Declared(toks, st, "Struct") EXCEPT
                  !.signature = sign.sig,
                  !.additional_doc = CommentTexts(toks, additional_doc(toks, st.i)),
                  !.implementations =
                      get_implementations(toks, st.i, At(toks, st.i + 1).text)])

\* lines 178-206
trait_arm(toks, st) ==
    LET skip == skip_impl_block(toks, st.i) IN
    IF ~skip.ok THEN Panic(st)
    ELSE LET st1 == [st EXCEPT !.skip_count = skip.n] IN
         IF ~InRange(toks, st.i + 1) THEN Panic(st1)
         ELSE IF At(toks, st.i + 1).k # "ident" THEN Continue(st1)
         ELSE LET info == trait_info(toks, st.i) IN
              IF ~info.ok THEN Panic(st1)
              ELSE Push(st1, [Declared(toks, st, "Trait") EXCEPT
                       !.signature = info.sign,
                       !.additional_doc = CommentTexts(toks, additional_doc(toks, st.i)),
                       !.required_methods = info.required_methods,
                       !.provided_methods = info.provided_methods,
                       !.implementations =
                           get_implementations(toks, st.i, At(toks, st.i + 1).text)])

\* mod_arm going on to the next token when the content fails
mod_arm_lenient(toks, st) ==
    IF ~InRange(toks, st.i + 2) THEN Panic(st)
    ELSE LET skip == IF At(toks, st.i + 2) = LeftBrace
                     THEN skip_impl_block(toks, st.i)
                     ELSE [ok |-> TRUE, n |-> st.skip_count] IN
         IF ~skip.ok THEN Panic(st)
         ELSE LET st1 == [st EXCEPT !.skip_count = skip.n] IN
              IF At(toks, st.i + 1).k # "ident" THEN Continue(st1)
              ELSE LET content == get_module_content(toks, st.i) IN
                   IF content.status # "ok"
                   THEN Continue(st1)
                   ELSE Push(st1, [Declared(toks, st, "Module") EXCEPT
                            !.content = content.nodes])

\* lines 207-223
mod_arm(toks, st) ==
    IF ~InRange(toks, st.i + 2) THEN Panic(st)
    ELSE LET skip == IF At(toks, st.i + 2) = LeftBrace
                     THEN skip_impl_block(toks, st.i)
                     ELSE [ok |-> TRUE, n |-> st.skip_count] IN
         IF ~skip.ok THEN Panic(st)
         ELSE LET st1 == [st EXCEPT !.skip_count = skip.n] IN
              IF At(toks, st.i + 1).k # "ident" THEN Continue(st1)
              ELSE LET content == get_module_content(toks, st.i) IN
                   IF content.status # "ok"
                   THEN [st1 EXCEPT !.status = content.status]
                   ELSE Push(st1, [Declared(toks, st, "Module") EXCEPT
                            !.content = content.nodes])

\* lines 207-220 and getters.rs 26-67: the Module arm up to the call of
\* to_output at getters.rs:69, for a run that makes the call a step of its own
mod_enter(toks, st) ==
    IF ~InRange(toks, st.i + 2) THEN [kind |-> "done", st |-> Panic(st)]
    ELSE LET skip == IF At(toks, st.i + 2) = LeftBrace
                     THEN skip_impl_block(toks, st.i)
                     ELSE [ok |-> TRUE, n |-> st.skip_count] IN
         IF ~skip.ok THEN [kind |-> "done", st |-> Panic(st)]
         ELSE LET st1 == [st EXCEPT !.skip_count = skip.n] IN
              IF At(toks, st.i + 1).k # "ident"
              THEN [kind |-> "done", st |-> Continue(st1)]
              ELSE LET content == module_tokens(toks, st.i) IN
                   IF content.status # "ok"
                   THEN [kind |-> "done",
                         st |-> [st1 EXCEPT !.status = content.status]]
                   ELSE [kind |-> "call", st |-> st1, toks |-> content.toks]

\* lines 224-242
comment_arm(toks, st) ==
    LET r == outer_doc(toks, st.i) IN
    IF ~r.ok THEN Panic(st)
    ELSE Push([st EXCEPT !.is_first = IF st.is_first THEN FALSE ELSE r.last = st.i],
              [Blank EXCEPT !.type = "OuterComment", !.pos = st.i,
                            !.doc = IF st.is_first THEN r.text ELSE <<>>])

\* lines 243-246
impl_arm(toks, st) ==
    LET skip == skip_impl_block(toks, st.i) IN
    IF ~skip.ok THEN Panic(st)
    ELSE Continue([st EXCEPT !.skip_count = skip.n])

\* lines 137-140
skip_arm(st) == [st EXCEPT !.skip_count = @ - 1, !.i = @ + 1]

\* lines 136-253: one iteration of the loop, or the return of line 255
Iteration(toks, st) ==
    IF st.i >= Len(toks) THEN [st EXCEPT !.status = "ok"]
    ELSE IF st.skip_count > 0 THEN skip_arm(st)
    ELSE LET t == At(toks, st.i) IN
         IF t = KwFn THEN fn_arm(toks, Mark(st))
         ELSE IF t = KwStruct THEN struct_arm(toks, Mark(st))
         ELSE IF t = KwTrait THEN trait_arm(toks, Mark(st))
         ELSE IF t = KwMod THEN mod_arm(toks, Mark(st))
         ELSE IF IsInnerComment(t) THEN comment_arm(toks, Mark(st))
         ELSE IF t = KwImpl THEN impl_arm(toks, Mark(st))
         ELSE Continue(Mark(st))

RECURSIVE to_output_loop(_, _)
to_output_loop(toks, st) ==
    IF st.status # "run" THEN st ELSE to_output_loop(toks, Iteration(toks, st))

to_output(toks) ==
    LET st == to_output_loop(toks, Fresh) IN
    [status |-> st.status, nodes |-> IF st.status = "ok" THEN st.res ELSE <<>>]

-----------------------------------------------------------------------------
(* The token streams given to to_output *)

MaxFlat == 3
MaxDoc == 3
MaxStructBody == 4
MaxTraitItems == 3
MaxBlockBody == 2
MaxModHead == 2
MaxNest == 2
MaxDepth == 6

OuterA == LineComment(TextA, "outer")
OuterB == BlockComment(TextB, "outer")
PlainC == LineComment(TextC, "none")
InnerD == LineComment(TextD, "inner")
IdG == Ident(NameG)
IdH == Ident(NameH)

Gen(n, A) == UNION {[1..k -> A] : k \in 0..n}

RECURSIVE Flatten(_)
Flatten(ss) == IF ss = <<>> THEN <<>> ELSE Head(ss) \o Flatten(Tail(ss))

\* any short stream of keywords, names and punctuation
FlatStreams ==
    Gen(MaxFlat, {KwFn, KwStruct, KwTrait, KwMod, KwImpl, IdG,
                  LeftBrace, RightBrace, Semicolon})

\* a declaration after a run of comments and other tokens
DocStreams ==
    {p \o d : p \in Gen(MaxDoc, {OuterA, OuterB, PlainC, InnerD, IdG, KwFn}),
              d \in {<<KwFn, IdG, Semicolon>>,
                     <<KwStruct, IdG, LeftBrace, RightBrace>>,
                     <<KwTrait, IdG, LeftBrace, RightBrace>>,
                     <<KwMod, Ident(NameM), Semicolon>>}}

\* a struct with a body of fields
StructStreams ==
    {<<KwStruct, IdG, LeftBrace>> \o b \o <<RightBrace>> :
        b \in Gen(MaxStructBody, {KwPub, IdG, IdH, Comma, Colon, LeftBrace, RightBrace})}

\* a trait whose body is a run of items: methods, well-formed or not
TraitItems ==
    {<<KwFn, IdG, Semicolon>>,
     <<KwFn, IdH, LeftBrace, RightBrace>>,
     <<OuterA, KwFn, IdG, Colon, Semicolon>>,
     <<KwFn, IdH, LeftBrace, KwFn, IdG, Semicolon, RightBrace>>,
     <<KwFn, IdG, LeftBrace, LeftBrace, RightBrace, RightBrace>>,
     <<KwFn, Semicolon>>,
     <<KwFn, IdG>>,
     <<LeftBrace>>}

TraitStreams ==
    {<<KwTrait, IdG, LeftBrace>> \o Flatten(b) \o <<RightBrace>> \o t :
        b \in Gen(MaxTraitItems, TraitItems),
        t \in {<<>>, <<KwFn, IdH, Semicolon>>}}

\* an impl, trait or mod block and what follows it
BlockStreams ==
    {h \o <<LeftBrace>> \o b \o <<RightBrace>> \o t :
        h \in {<<KwImpl>>, <<KwImpl, IdG>>, <<KwTrait, IdG>>, <<KwTrait>>,
               <<KwMod, IdG>>, <<KwMod>>},
        b \in Gen(MaxBlockBody, {KwFn, IdH, Semicolon, LeftBrace, RightBrace, InnerD}),
        t \in {<<>>, <<KwFn, IdH, Semicolon>>, <<InnerD, Semicolon>>,
               <<RightBrace, KwStruct, IdH, LeftBrace, RightBrace>>}}

\* a module declared by a terminator
ModStreams ==
    {p \o <<KwMod>> \o h \o <<Semicolon>> \o t :
        p \in {<<>>, <<OuterA>>, <<InnerD, InnerD>>},
        h \in Gen(MaxModHead, {Ident(NameM), Ident(NameN), Ident(NameR), Ident(NameQ)}),
        t \in {<<>>, <<KwFn, IdH, Semicolon>>}}

\* body, wrapped in k inline modules: mod g { ... mod g { body } ... }
RECURSIVE Nest(_, _)
Nest(k, body) ==
    IF k = 0 THEN body
    ELSE <<KwMod, IdG, LeftBrace>> \o Nest(k - 1, body) \o <<RightBrace>>

NestItems ==
    {<<>>, <<KwFn, IdG, Semicolon>>, <<KwFn, IdG>>,
     <<KwMod, Ident(NameM), Semicolon>>, <<KwMod, Ident(NameN), Semicolon>>,
     <<KwMod, Ident(NameR), Semicolon>>, <<KwMod, Ident(NameQ), Semicolon>>}

\* inline modules, nested, around declarations and modules kept in files
NestStreams ==
    {p \o Nest(k, a \o b) \o t :
        k \in 1..MaxNest, a \in NestItems, b \in NestItems,
        p \in {<<>>, <<KwFn, IdH, Semicolon>>},
        t \in {<<>>, <<KwFn, IdH, Semicolon>>}}

Inputs ==
    FlatStreams \cup DocStreams \cup StructStreams \cup TraitStreams
        \cup BlockStreams \cup ModStreams \cup NestStreams

-----------------------------------------------------------------------------
(* The run of to_output over tokens, one iteration of its loop per step *)

Cur ==
    [i |-> i, skip_count |-> skip_count, is_first |-> is_first, res |-> res,
     status |-> status, dispatched |-> dispatched]

Become(st) ==
    /\ i' = st.i
    /\ skip_count' = st.skip_count
    /\ is_first' = st.is_first
    /\ res' = st.res
    /\ status' = st.status
    /\ dispatched' = st.dispatched
    /\ UNCHANGED <<tokens, stack>>

Init ==
    /\ tokens \in Inputs
    /\ i = Fresh.i
    /\ skip_count = Fresh.skip_count
    /\ is_first = Fresh.is_first
    /\ res = Fresh.res
    /\ status = Fresh.status
    /\ dispatched = Fresh.dispatched
    /\ stack = <<>>

Running == status = "run" /\ i < Len(tokens)
Matching == Running /\ skip_count = 0

Skip == Running /\ skip_count > 0 /\ Become(skip_arm(Cur))
OnFn == Matching /\ At(tokens, i) = KwFn /\ Become(fn_arm(tokens, Mark(Cur)))
OnStruct == Matching /\ At(tokens, i) = KwStruct /\ Become(struct_arm(tokens, Mark(Cur)))
OnTrait == Matching /\ At(tokens, i) = KwTrait /\ Become(trait_arm(tokens, Mark(Cur)))
OnMod == Matching /\ At(tokens, i) = KwMod /\ Become(mod_arm(tokens, Mark(Cur)))
OnComment ==
    Matching /\ IsInnerComment(At(tokens, i)) /\ Become(comment_arm(tokens, Mark(Cur)))
OnImpl == Matching /\ At(tokens, i) = KwImpl /\ Become(impl_arm(tokens, Mark(Cur)))
OnOther ==
    /\ Matching
    /\ ~IsDeclKeyword(At(tokens, i))
    /\ ~IsInnerComment(At(tokens, i))
    /\ Become(Continue(Mark(Cur)))
Return == status = "run" /\ i >= Len(tokens) /\ Become([Cur EXCEPT !.status = "ok"])

Next ==
    \/ Skip
    \/ OnFn
    \/ OnStruct
    \/ OnTrait
    \/ OnMod
    \/ OnComment
    \/ OnImpl
    \/ OnOther
    \/ Return

Spec == Init /\ [][Next]_vars

-----------------------------------------------------------------------------
(* The same run with the recursion of to_output through get_module_content
   (getters.rs:69) made of steps: stack holds the suspended callers, the
   other variables the locals of the running call. The stack of the
   process has room for MaxDepth suspended calls. *)

IdC == Ident(NameC)

CallItems == NestItems \cup {<<KwMod, IdC, Semicolon>>}

CallStreams ==
    {p \o Nest(k, a) \o t :
        k \in 0..MaxNest, a \in CallItems,
        p \in {<<>>, <<InnerD>>, <<KwFn, IdH, Semicolon>>,
                <<KwStruct, IdH, LeftBrace, RightBrace>>,
                <<KwTrait, IdH, LeftBrace, RightBrace>>,
                <<KwImpl, IdH, LeftBrace, RightBrace>>},
        t \in {<<>>, <<KwFn, IdH, Semicolon>>}}

Resume(toks, st, callers) ==
    /\ tokens' = toks
    /\ i' = st.i
    /\ skip_count' = st.skip_count
    /\ is_first' = st.is_first
    /\ res' = st.res
    /\ status' = st.status
    /\ dispatched' = st.dispatched
    /\ stack' = callers

InitCalls ==
    /\ tokens \in CallStreams
    /\ i = Fresh.i
    /\ skip_count = Fresh.skip_count
    /\ is_first = Fresh.is_first
    /\ res = Fresh.res
    /\ status = Fresh.status
    /\ dispatched = Fresh.dispatched
    /\ stack = <<>>

AtMod == Matching /\ At(tokens, i) = KwMod

\* the Module arm ends without a call: a failed read, a keyword without a
\* name, a file that cannot be read
ModStays ==
    /\ AtMod
    /\ mod_enter(tokens, Mark(Cur)).kind = "done"
    /\ Become(mod_enter(tokens, Mark(Cur)).st)

\* getters.rs:69: to_output is called on the content of the module
CallMod ==
    /\ AtMod
    /\ mod_enter(tokens, Mark(Cur)).kind = "call"
    /\ Len(stack) < MaxDepth
    /\ Resume(mod_enter(tokens, Mark(Cur)).toks, Fresh,
              Append(stack, [tokens |-> tokens,
                             st |-> mod_enter(tokens, Mark(Cur)).st]))

\* the call finds no room left on the stack: the process is aborted
Overflow ==
    /\ AtMod
    /\ mod_enter(tokens, Mark(Cur)).kind = "call"
    /\ Len(stack) >= MaxDepth
    /\ Become([Cur EXCEPT !.status = "overflow"])

\* line 255 in the outermost call
ReturnTop == stack = <<>> /\ Return

\* line 255 in a called to_output, then lines 222 and 252 in its caller
ReturnToCaller ==
    /\ status = "run"
    /\ i >= Len(tokens)
    /\ stack # <<>>
    /\ LET caller == stack[Len(stack)] IN
       Resume(caller.tokens,
              Push(caller.st, [Declared(caller.tokens, caller.st, "Module")
                                  EXCEPT !.content = res]),
              SubSeq(stack, 1, Len(stack) - 1))

\* the ? of getters.rs:69 and of line 222: the caller returns the error
ReturnErr ==
    /\ status = "err"
    /\ stack # <<>>
    /\ LET caller == stack[Len(stack)] IN
       Resume(caller.tokens, [caller.st EXCEPT !.status = "err"],
              SubSeq(stack, 1, Len(stack) - 1))

NextCalls ==
    \/ Skip
    \/ OnFn
    \/ OnStruct
    \/ OnTrait
    \/ OnComment
    \/ OnImpl
    \/ OnOther
    \/ ModStays
    \/ CallMod
    \/ Overflow
    \/ ReturnTop
    \/ ReturnToCaller
    \/ ReturnErr

CallSpec == InitCalls /\ [][NextCalls]_vars

-----------------------------------------------------------------------------
(* Notions the properties are stated with *)

Last(s) == s[Len(s)]
Range(s) == {s[k] : k \in 1..Len(s)}
Positions(toks) == 0..(Len(toks) - 1)
Nodes == {res[k] : k \in 1..Len(res)}
NodesOf(types) == {n \in Nodes : n.type \in types}
Declarations == NodesOf({"Function", "Struct", "Trait", "Module"})

\* the closing brace that matches the scope-open at position open, or -1
RECURSIVE MatchFrom(_, _, _)
MatchFrom(toks, n, depth) ==
    IF ~InRange(toks, n) THEN -1
    ELSE IF At(toks, n) = LeftBrace THEN MatchFrom(toks, n + 1, depth + 1)
    ELSE IF At(toks, n) = RightBrace
         THEN IF depth = 1 THEN n ELSE MatchFrom(toks, n + 1, depth - 1)
    ELSE MatchFrom(toks, n + 1, depth)

MatchClose(toks, open) == MatchFrom(toks, open + 1, 1)

\* the first scope-open at or after position n, or -1
RECURSIVE FirstOpen(_, _)
FirstOpen(toks, n) ==
    IF ~InRange(toks, n) THEN -1
    ELSE IF At(toks, n) = LeftBrace THEN n
    ELSE FirstOpen(toks, n + 1)

IsNamed(toks, p) == InRange(toks, p + 1) /\ At(toks, p + 1).k = "ident"

\* position a comes before position b in the sequence of positions s
Before(s, a, b) ==
    \E x, y \in 1..Len(s) : x < y /\ s[x] = a /\ s[y] = b

-----------------------------------------------------------------------------
(* C1 *)

\* C1: when two outer-doc comments A then B immediately precede an fn
\* keyword, the doc of the Function node holds the text of both, A before B.
C1_BothOuterCommentsInDoc ==
    \A n \in NodesOf({"Function"}) :
        (n.pos >= 2 /\ IsOuterComment(At(tokens, n.pos - 1))
                    /\ IsOuterComment(At(tokens, n.pos - 2)))
        => /\ Before(n.docSrc, n.pos - 2, n.pos - 1)
           /\ n.doc = CommentTexts(tokens, n.docSrc)

-----------------------------------------------------------------------------
(* C4 *)

\* C4: a stream in which the scope-open of a function body, struct body,
\* trait body, impl block or inline module has no matching scope-close is
\* never turned into a successful node list.
C4_UnmatchedOpenFails ==
    (\E p \in Positions(tokens) :
        /\ IsDeclKeyword(At(tokens, p))
        /\ IsNamed(tokens, p)
        /\ InRange(tokens, p + 2)
        /\ At(tokens, p + 2) = LeftBrace
        /\ MatchClose(tokens, p + 2) = -1)
    => status # "ok"

-----------------------------------------------------------------------------
(* C7 *)

Malformed(toks, p) ==
    /\ At(toks, p) \in {KwFn, KwStruct, KwTrait, KwMod}
    /\ ~IsNamed(toks, p)

\* C7: to_output does not fail at an fn, struct, trait or mod keyword whose
\* next token is not an identifier, and emits no node for it.
C7_MalformedKeywordSkipped ==
    \A p \in Positions(tokens) :
        (Malformed(tokens, p) /\ dispatched # <<>> /\ Last(dispatched) = p)
        => /\ status \in {"run", "ok"}
           /\ \A n \in Nodes : n.pos # p

-----------------------------------------------------------------------------
(* C8 *)

\* positions a..b hold a maximal run of inner-doc comments
InnerRun(toks, a, b) ==
    /\ a <= b
    /\ \A q \in a..b : IsInnerComment(At(toks, q))
    /\ (a = 0 \/ ~IsInnerComment(At(toks, a - 1)))
    /\ (b = Len(toks) - 1 \/ ~IsInnerComment(At(toks, b + 1)))

\* C8: a run of two or more consecutive inner-doc comments yields exactly
\* one OuterComment node in the returned list.
C8_RunYieldsOneNode ==
    status = "ok" =>
        \A a, b \in Positions(tokens) :
            (a < b /\ InnerRun(tokens, a, b) /\ \A q \in a..b : q \in Range(dispatched))
            => Cardinality({n \in NodesOf({"OuterComment"}) : n.pos \in a..b}) = 1

-----------------------------------------------------------------------------
(* C9 *)

\* C9: the doc of a Function, Struct, Trait or Module node is built from
\* one contiguous run of comments ending right before the keyword, all of
\* them doc comments of one style.
C9_DocIsContiguousRun ==
    \A n \in Declarations :
        /\ n.docSrc = [k \in 1..Len(n.docSrc) |-> n.pos - Len(n.docSrc) + k - 1]
        /\ \A k \in 1..Len(n.docSrc) :
              /\ At(tokens, n.docSrc[k]).style \in {"inner", "outer"}
              /\ At(tokens, n.docSrc[k]).style = At(tokens, n.docSrc[1]).style

-----------------------------------------------------------------------------
(* C2 *)

Placeholder == Lit("/* private fields */")
HasPlaceholder(sig) == \E k \in 1..Len(sig) : sig[k] = Placeholder
SigPositions(sig) == {sig[k].pos : k \in 1..Len(sig)} \ {-1}

\* the scope-open and scope-close of the body of the struct declared at p
BodyOpen(toks, p) == FirstOpen(toks, p)
BodyClose(toks, p) ==
    IF BodyOpen(toks, p) = -1 THEN -1 ELSE MatchClose(toks, BodyOpen(toks, p))
Body(toks, p) == (BodyOpen(toks, p) + 1)..(BodyClose(toks, p) - 1)

\* a brace-delimited body of fields: no scope nested in it
HasFieldBody(toks, p) ==
    /\ BodyClose(toks, p) # -1
    /\ \A q \in Body(toks, p) : At(toks, q) # LeftBrace

HasPubField(toks, p) == \E q \in Body(toks, p) : At(toks, q) = KwPub

\* C2: the signature of a struct with a brace-delimited body holds the
\* private-fields placeholder exactly when no field of the body is
\* qualified with pub, and then holds no token of the body.
C2_PlaceholderIffNoPubField ==
    \A n \in NodesOf({"Struct"}) :
        HasFieldBody(tokens, n.pos)
        => /\ HasPlaceholder(n.signature) <=> ~HasPubField(tokens, n.pos)
           /\ ~HasPubField(tokens, n.pos)
              => SigPositions(n.signature) \cap Body(tokens, n.pos) = {}

C2_Witness ==
    \E n \in NodesOf({"Struct"}) :
        /\ HasFieldBody(tokens, n.pos)
        /\ Body(tokens, n.pos) # {}
        /\ ~HasPubField(tokens, n.pos)
        /\ HasPlaceholder(n.signature)

-----------------------------------------------------------------------------
(* C10 *)

\* the body of the struct at p is a public field ending at the separator
\* at c, followed by tokens of non-public fields only
PubThenPrivate(toks, p, c) ==
    /\ HasFieldBody(toks, p)
    /\ c \in Body(toks, p)
    /\ c > BodyOpen(toks, p) + 1
    /\ c < BodyClose(toks, p) - 1
    /\ At(toks, BodyOpen(toks, p) + 1) = KwPub
    /\ At(toks, c) = Comma
    /\ \A q \in (BodyOpen(toks, p) + 1)..(c - 1) : At(toks, q) # Comma
    /\ \A q \in (c + 1)..(BodyClose(toks, p) - 1) : At(toks, q) # KwPub

NonPublic(toks, p, c) == (c + 1)..(BodyClose(toks, p) - 1)

\* the pieces pushed for the tokens at positions a..b
TokenPieces(a, b) ==
    Flatten([k \in 1..(b - a + 1) |-> <<TokText(a + k - 1), Lit(" ")>>])

\* C10 as stated: the signature holds the public field and its separator
\* followed by the placeholder, and no token of the non-public field.
C10_PlaceholderAfterPubField ==
    \A n \in NodesOf({"Struct"}) : \A c \in Positions(tokens) :
        PubThenPrivate(tokens, n.pos, c)
        => /\ \E x, y \in 1..Len(n.signature) :
                 /\ x < y
                 /\ n.signature[x] = Lit(",\n")
                 /\ n.signature[y] = Placeholder
           /\ SigPositions(n.signature) \cap NonPublic(tokens, n.pos, c) = {}

\* C10, amended: the signature is the header, the public field's tokens
\* and separator, and the close of the body: it holds no placeholder and
\* no token of the non-public field.
C10_PubFieldThenClose ==
    \A n \in NodesOf({"Struct"}) : \A c \in Positions(tokens) :
        PubThenPrivate(tokens, n.pos, c)
        => /\ n.signature =
                 TokenPieces(n.pos, BodyOpen(tokens, n.pos) - 1)
                 \o <<Lit("{"), Lit("\n")>>
                 \o TokenPieces(BodyOpen(tokens, n.pos) + 1, c - 1)
                 \o <<Lit(",\n"), Lit("\n"), Lit("}")>>
           /\ ~HasPlaceholder(n.signature)
           /\ SigPositions(n.signature) \cap NonPublic(tokens, n.pos, c) = {}

C10_Witness ==
    \E n \in NodesOf({"Struct"}) : \E c \in Positions(tokens) :
        /\ PubThenPrivate(tokens, n.pos, c)
        /\ At(tokens, c + 1).k = "ident"
        /\ ~HasPlaceholder(n.signature)

-----------------------------------------------------------------------------
(* C3 *)

\* the end of a method signature that starts at n: the first statement
\* terminator or scope-open before close, or -1 when an fn keyword or a
\* scope-close comes first
RECURSIVE SigEnd(_, _, _)
SigEnd(toks, n, close) ==
    IF n >= close THEN -1
    ELSE IF At(toks, n) \in {Semicolon, LeftBrace} THEN n
    ELSE IF At(toks, n) \in {KwFn, RightBrace} THEN -1
    ELSE SigEnd(toks, n + 1, close)

NotMethods == [ok |-> FALSE, methods |-> <<>>]

\* the method declarations between n and close, each with its kind, when
\* these tokens are well-formed method declarations (and comments) only
RECURSIVE ParseMethods(_, _, _)
ParseMethods(toks, n, close) ==
    IF n >= close THEN [ok |-> n = close, methods |-> <<>>]
    ELSE IF IsComment(At(toks, n)) THEN ParseMethods(toks, n + 1, close)
    ELSE IF At(toks, n) # KwFn \/ ~IsNamed(toks, n) THEN NotMethods
    ELSE LET e == SigEnd(toks, n + 2, close) IN
         IF e = -1 THEN NotMethods
         ELSE IF At(toks, e) = Semicolon
              THEN LET r == ParseMethods(toks, e + 1, close) IN
                   [r EXCEPT !.methods = <<[pos |-> n, kind |-> "required"]>> \o @]
         ELSE LET m == MatchClose(toks, e) IN
              IF m = -1 \/ m >= close THEN NotMethods
              ELSE LET r == ParseMethods(toks, m + 1, close) IN
                   [r EXCEPT !.methods = <<[pos |-> n, kind |-> "provided"]>> \o @]

\* the trait declared at p: trait, name, scope-open, body, scope-close
TraitMethods(toks, p) ==
    IF /\ At(toks, p) = KwTrait
       /\ IsNamed(toks, p)
       /\ InRange(toks, p + 2)
       /\ At(toks, p + 2) = LeftBrace
       /\ MatchClose(toks, p + 2) # -1
    THEN ParseMethods(toks, p + 3, MatchClose(toks, p + 2))
    ELSE NotMethods

OfKind(methods, kind) == SelectSeq(methods, LAMBDA m : m.kind = kind)
PositionsOf(fs) == [k \in 1..Len(fs) |-> fs[k].pos]

\* C3: for a trait whose body holds only well-formed method declarations,
\* required_methods are the methods that end at a terminator and
\* provided_methods those that end at a scope-open, both in source order
\* with is_method true, and together they are all the methods of the body.
C3_MethodsClassified ==
    \A k \in 1..Len(dispatched) :
        LET p == dispatched[k]
            t == TraitMethods(tokens, p)
        IN  t.ok =>
            /\ \E n \in NodesOf({"Trait"}) : n.pos = p
            /\ \A n \in NodesOf({"Trait"}) :
                  n.pos = p =>
                  /\ PositionsOf(n.required_methods)
                        = PositionsOf(OfKind(t.methods, "required"))
                  /\ PositionsOf(n.provided_methods)
                        = PositionsOf(OfKind(t.methods, "provided"))
                  /\ Len(n.required_methods) + Len(n.provided_methods)
                        = Len(t.methods)
                  /\ \A f \in Range(n.required_methods) \cup Range(n.provided_methods) :
                        f.is_method /\ f.name = At(tokens, f.pos + 1).text

C3_Witness ==
    \E n \in NodesOf({"Trait"}) :
        /\ TraitMethods(tokens, n.pos).ok
        /\ Len(n.required_methods) >= 1
        /\ Len(n.provided_methods) >= 1
        /\ Len(n.required_methods) + Len(n.provided_methods) = 3

-----------------------------------------------------------------------------
(* C5 *)

\* to_output computes a skip count at p: an impl or trait keyword, or a
\* mod keyword whose name is directly followed by a scope-open
BlockKeyword(toks, p) ==
    \/ At(toks, p) \in {KwImpl, KwTrait}
    \/ At(toks, p) = KwMod /\ InRange(toks, p + 2) /\ At(toks, p + 2) = LeftBrace

\* the closing brace of the block of the keyword at p, or -1
BlockClose(toks, p) ==
    IF FirstOpen(toks, p) = -1 THEN -1 ELSE MatchClose(toks, FirstOpen(toks, p))

\* C5: after a dispatch on an impl, trait or inline mod keyword with a
\* balanced block, the next dispatch is on the token right after the
\* block's closing brace, no node of this level comes from a token inside
\* the block, and an impl keyword yields no node.
C5_BlockSkipped ==
    \A k \in 1..Len(dispatched) :
        LET p == dispatched[k]
            close == BlockClose(tokens, p)
        IN  (BlockKeyword(tokens, p) /\ close # -1) =>
            /\ k < Len(dispatched) => dispatched[k + 1] = close + 1
            /\ (status = "ok" /\ close + 1 < Len(tokens)) => k < Len(dispatched)
            /\ \A n \in Nodes : ~(n.pos > p /\ n.pos <= close)
            /\ At(tokens, p) = KwImpl => \A n \in Nodes : n.pos # p

C5_Witness ==
    \E k \in 1..Len(dispatched) :
        LET p == dispatched[k]
            close == BlockClose(tokens, p)
        IN  /\ At(tokens, p) = KwImpl
            /\ close > FirstOpen(tokens, p) + 2
            /\ At(tokens, FirstOpen(tokens, p) + 1) = KwFn
            /\ k < Len(dispatched)
            /\ dispatched[k + 1] = close + 1
            /\ \E n \in NodesOf({"Function"}) : n.pos = close + 1

-----------------------------------------------------------------------------
(* C6 *)

ModByFile(toks, p) ==
    /\ At(toks, p) = KwMod
    /\ IsNamed(toks, p)
    /\ InRange(toks, p + 2)
    /\ At(toks, p + 2) = Semicolon

\* C6: for a module declared as `mod name;` the content of the Module node
\* is the node list of a standalone to_output over the tokens of the file
\* of that name, and the node exists when that extraction succeeds.
C6_FileModuleContent ==
    \A k \in 1..Len(dispatched) :
        LET p == dispatched[k] IN
        ModByFile(tokens, p) =>
            LET file == get_doc(At(tokens, p + 1).text)
                standalone == to_output(file.toks)
            IN  /\ \A n \in NodesOf({"Module"}) :
                      n.pos = p =>
                      /\ file.ok
                      /\ standalone.status = "ok"
                      /\ n.content = standalone.nodes
                /\ (file.ok /\ standalone.status = "ok")
                      => \E n \in NodesOf({"Module"}) : n.pos = p

C6_Witness ==
    \E n \in NodesOf({"Module"}) :
        /\ ModByFile(tokens, n.pos)
        /\ At(tokens, n.pos + 1) = Ident(NameN)
        /\ Len(n.content) = 2
        /\ n.content[1].type = "Module"
        /\ n.content[1].content # <<>>

-----------------------------------------------------------------------------
(* C12 *)

\* C12: the doc of a declaration holds no comment that has an fn, mod,
\* struct, trait or impl keyword between it and the declaration's keyword,
\* a keyword just before the declaration's keyword included.
C12_DocCrossesNoKeyword ==
    \A n \in Declarations :
        \A c \in Range(n.docSrc) :
            ~\E q \in Positions(tokens) :
                c < q /\ q < n.pos /\ IsDeclKeyword(At(tokens, q))

-----------------------------------------------------------------------------
(* C13 *)

\* mod name { ... } at position p, its scope closed by a matching brace
InlineModule(toks, p) ==
    /\ At(toks, p) = KwMod
    /\ IsNamed(toks, p)
    /\ InRange(toks, p + 2)
    /\ At(toks, p + 2) = LeftBrace
    /\ MatchClose(toks, p + 2) # -1

\* the tokens strictly between the scope-open at open and its match
Enclosed(toks, open) ==
    SubSeq(toks, open + 2, MatchClose(toks, open))

\* C13: for an inline module with balanced braces, the tokens given to the
\* recursive to_output are exactly those strictly between the module's
\* opening brace and its matching closing brace, neither brace included.
C13_InlineContentIsEnclosed ==
    \A p \in Range(dispatched) :
        InlineModule(tokens, p)
        => /\ module_tokens(tokens, p).status = "ok"
           /\ module_tokens(tokens, p).toks = Enclosed(tokens, p + 2)

-----------------------------------------------------------------------------
(* C14 *)

Elided == Lit("{ ... }")
Count(s, x) == Cardinality({k \in 1..Len(s) : s[k] = x})

\* the positions of the body of the provided method at position f of a
\* well-formed trait that closes at close: its braces and all between
MethodBody(toks, f, close) ==
    LET open == SigEnd(toks, f + 2, close) IN open..MatchClose(toks, open)

ProvidedBodies(toks, p) ==
    LET t == TraitMethods(toks, p) IN
    UNION {MethodBody(toks, t.methods[k].pos, MatchClose(toks, p + 2)) :
              k \in {j \in 1..Len(t.methods) : t.methods[j].kind = "provided"}}

\* C14: the signature of a trait holds no token of a provided method's
\* body; each body is written as '{ ... }', no fn keyword inside a body is
\* recorded as a method, and scanning goes on after the body's matching
\* scope-close: the methods after it are in the signature, which ends
\* at the trait's own scope-close.
C14_BodiesElided ==
    \A n \in NodesOf({"Trait"}) :
        LET t == TraitMethods(tokens, n.pos) IN
        t.ok =>
        /\ SigPositions(n.signature) \cap ProvidedBodies(tokens, n.pos) = {}
        /\ Count(n.signature, Elided) = Len(OfKind(t.methods, "provided"))
        /\ \A f \in Range(n.required_methods) \cup Range(n.provided_methods) :
              f.pos \notin ProvidedBodies(tokens, n.pos)
        /\ \A k \in 1..Len(t.methods) : t.methods[k].pos \in SigPositions(n.signature)
        /\ Last(n.signature) = Lit("}")

C14_Witness ==
    \E n \in NodesOf({"Trait"}) :
        /\ TraitMethods(tokens, n.pos).ok
        /\ \E q \in ProvidedBodies(tokens, n.pos) : At(tokens, q) = KwFn
        /\ \E q \in ProvidedBodies(tokens, n.pos) :
              /\ At(tokens, q) = RightBrace
              /\ \E q2 \in ProvidedBodies(tokens, n.pos) :
                    q2 > q /\ At(tokens, q2) = RightBrace
                    /\ \A x \in q..q2 : x \in ProvidedBodies(tokens, n.pos)
        /\ Len(n.required_methods) >= 1
        /\ Last(TraitMethods(tokens, n.pos).methods).kind = "required"

-----------------------------------------------------------------------------
(* C16 *)

\* the nodes of a list are in the order of their positions, one per position
Ordered(nodes) ==
    \A a, b \in 1..Len(nodes) : a < b => nodes[a].pos < nodes[b].pos

\* every list of the tree: nodes, and the content of each Module node in it
RECURSIVE OrderedTree(_)
OrderedTree(nodes) ==
    /\ Ordered(nodes)
    /\ \A k \in 1..Len(nodes) : OrderedTree(nodes[k].content)

\* C16: the nodes of the list are in the order of the stream positions of
\* the tokens they were built at, no position gives two nodes (the same in
\* the content of every Module node), and the pending skip count is never
\* negative and never reaches past the end of the stream: the position of
\* the keyword that set it plus the count is at most the last index.
C16_OrderedAndSkipInRange ==
    /\ OrderedTree(res)
    /\ \A n \in Nodes : n.pos \in Range(dispatched)
    /\ skip_count >= 0
    /\ skip_count > 0 => (i - 1) + skip_count <= Len(tokens) - 1

C16_Witness ==
    /\ Len(res) >= 2
    /\ skip_count > 0
    /\ Last(dispatched) = i - 1
    /\ (i - 1) + skip_count = Len(tokens) - 1
    /\ \E n \in NodesOf({"Module"}) : Len(n.content) >= 2

-----------------------------------------------------------------------------
(* C11 *)

\* how the extraction of the content of the module declared at p ends:
\* "err" when the file of mod name; cannot be read, else the outcome of
\* to_output over the module's tokens
ModuleOutcome(toks, p) ==
    IF ModByFile(toks, p)
    THEN LET file == get_doc(At(toks, p + 1).text) IN
         IF file.ok THEN to_output(file.toks).status ELSE "err"
    ELSE IF InlineModule(toks, p)
         THEN to_output(module_tokens(toks, p).toks).status
    ELSE "ok"

\* C11: when the file of a module cannot be read, or the extraction over a
\* module's tokens fails, to_output of the enclosing stream fails the same
\* way at that module and returns no node list: nothing is built for the
\* module or after it, and the nodes built before it are not returned.
C11_ModuleFailurePropagates ==
    \A p \in Range(dispatched) :
        ModuleOutcome(tokens, p) # "ok"
        => /\ status = ModuleOutcome(tokens, p)
           /\ Last(dispatched) = p
           /\ \A n \in Nodes : n.pos < p
           /\ to_output(tokens) = [status |-> ModuleOutcome(tokens, p), nodes |-> <<>>]

\* nodes were built before a module whose failure comes from two levels
\* further down: its content starts with a module that itself holds the
\* module whose file cannot be read
C11_Witness ==
    /\ status = "err"
    /\ res # <<>>
    /\ LET p == Last(dispatched) IN
       /\ InlineModule(tokens, p)
       /\ LET inner == module_tokens(tokens, p).toks IN
          /\ InlineModule(inner, 0)
          /\ ModuleOutcome(inner, 0) = "err"
          /\ \E q \in Positions(module_tokens(inner, 0).toks) :
                /\ ModByFile(module_tokens(inner, 0).toks, q)
                /\ ~get_doc(At(module_tokens(inner, 0).toks, q + 1).text).ok

-----------------------------------------------------------------------------
(* C15 *)

\* C15: to_output on a finite token stream is under way or has ended, by
\* returning a result or by an out-of-range read: the recursion over the
\* modules of the stream ends, it never uses up the stack of the process.
C15_EndsByReturnOrRangeFailure ==
    status \in {"run", "ok", "err", "panic"}

=============================================================================
